---- MODULE Spec2Model ----
(***************************************************************************)
(* A model of ceviche's FDFD core (src/ceviche/fdfd.py): the simulation    *)
(* classes fdfd_ez, fdfd_hz and fdfd_ez_nl, the operator builder, the      *)
(* system-matrix assembly, the field conversions and the solve call.       *)
(*                                                                         *)
(* Numbers.  The program computes with complex floating-point numbers.     *)
(* The model computes the same expressions exactly, in the field           *)
(* GF(P^2) = Z_P[i] for the prime P = 10007 (P = 3 mod 4, so -1 has no     *)
(* square root in Z_P and i is adjoined as for the complex numbers).  A    *)
(* Scalar is a pair <<re, im>> of residues; the real quantities of the     *)
(* program (the physical constants, omega, dL, the permittivity cells)     *)
(* are fixed residues <<r, 0>>.  Sums, products, quotients, conjugates    *)
(* and real parts are those of the field, so every identity between two    *)
(* expressions of the program that holds for complex numbers holds in the  *)
(* model, and two expressions that differ in the model differ as complex   *)
(* expressions.                                                            *)
(*                                                                         *)
(* Sparse matrices are records [r, c, e]: r rows, c columns and e the map  *)
(* from the positions <<i, j>> of the non-zero entries to their Scalars.   *)
(***************************************************************************)
EXTENDS Integers, Sequences, FiniteSets, TLC

(***************************************************************************)
(* Bounds of the model.                                                    *)
(***************************************************************************)
MaxDim == 3      \* a simulation's grid dimensions Nx, Ny range over 1..MaxDim
MaxCells == 4    \* and its grid has at most MaxCells cells
MaxObjPml == 1   \* a simulation's PML widths range over 0..MaxObjPml
MaxAxis == 4     \* the operator builder is also run on axes of 1..MaxAxis cells
MaxOpCells == 8  \* for grids of at most MaxOpCells cells
MaxPml == 2      \* with PML widths 0..MaxPml
MaxADCells == 2  \* a differentiated simulation's grid has at most MaxADCells cells
MaxSfN == 8      \* create_sfactor is also run on its own for axes of 1..MaxSfN cells
MaxSfPml == 4    \* with PML widths 0..MaxSfPml

(***************************************************************************)
(* Exact scalar arithmetic in Z_P[i].                                      *)
(***************************************************************************)
P == 10000 + 7

\* x itself.  Comparing a function with itself makes TLC compute it in full
\* once, instead of recomputing an entry at each later use
Whole(x) == IF x = x THEN x ELSE x

\* F of the value v: a value computed once and used under a name (a local
\* variable of the program)
Bind(v, F(_)) == F(v)

Zero == <<0, 0>>
One == <<1, 0>>
Imag == <<0, 1>>                                \* 1j
Num(k) == <<k % P, 0>>

SAdd(x, y) == <<(x[1] + y[1]) % P, (x[2] + y[2]) % P>>
SNeg(x) == <<(0 - x[1]) % P, (0 - x[2]) % P>>
SMul(x, y) == <<(x[1] * y[1] - x[2] * y[2]) % P, (x[1] * y[2] + x[2] * y[1]) % P>>
Conj(x) == <<x[1], (0 - x[2]) % P>>
Real(x) == <<x[1], 0>>                          \* np.real

RECURSIVE ModPow(_, _)
\* a^k in Z_P
ModPow(a, k) ==
  IF k = 0 THEN 1
  ELSE IF k % 2 = 0 THEN ModPow((a * a) % P, k \div 2)
  ELSE (a * ModPow((a * a) % P, k \div 2)) % P

\* 1 / x for x # 0: conj(x) / |x|^2, with 1 / n = n^(P - 2) in Z_P
Recip(x) ==
  LET n == ModPow((x[1] * x[1] + x[2] * x[2]) % P, P - 2)
  IN  <<(x[1] * n) % P, ((0 - x[2]) * n) % P>>

SDiv(x, y) == SMul(x, Recip(y))

RECURSIVE SPow(_, _)
\* x ** m for a natural number m
SPow(x, m) == IF m = 0 THEN One ELSE SMul(x, SPow(x, m - 1))

\* ceviche.constants, and the omega and dL every simulation of the model
\* is constructed with
MU_0 == Num(13)
EPSILON_0 == Num(17)
ETA_0 == Num(19)
omega == Num(7)
dL == Num(11)
Half == Recip(Num(2))                            \* 0.5

RECURSIVE SumOver(_, _)
\* the sum of f[k] over k in K
SumOver(K, f) ==
  IF K = {} THEN Zero
  ELSE LET k == CHOOSE k \in K : TRUE
       IN  SAdd(f[k], SumOver(K \ {k}, f))

(***************************************************************************)
(* Sparse matrices.                                                        *)
(***************************************************************************)
Entry(M, i, j) == IF <<i, j>> \in DOMAIN M.e THEN M.e[<<i, j>>] ELSE Zero

\* the matrix with r rows, c columns and entry f[<<i, j>>] at <<i, j>>
Sparse(r, c, f) ==
  LET g == Whole(f)
  IN  [r |-> r, c |-> c,
       e |-> Whole([ij \in {ij \in (1..r) \X (1..c) : g[ij] # Zero} |-> g[ij]])]

NoMatrix == [r |-> 0, c |-> 0, e |-> [ij \in {} |-> Zero]]

Conform(M1, M2) == M1.c = M2.r
SameShape(M1, M2) == M1.r = M2.r /\ M1.c = M2.c

\* M1.dot(M2), defined when Conform(M1, M2)
Dot(M1, M2) ==
  LET K(i, j) == {k \in 1..M1.c : <<i, k>> \in DOMAIN M1.e /\ <<k, j>> \in DOMAIN M2.e}
      f == [ij \in (1..M1.r) \X (1..M2.c) |->
              SumOver(K(ij[1], ij[2]),
                      [k \in 1..M1.c |-> SMul(Entry(M1, ij[1], k), Entry(M2, k, ij[2]))])]
  IN  Sparse(M1.r, M2.c, f)

\* M1 + M2, defined when SameShape(M1, M2)
MAdd(M1, M2) ==
  Sparse(M1.r, M1.c,
         [ij \in (1..M1.r) \X (1..M1.c) |->
            SAdd(Entry(M1, ij[1], ij[2]), Entry(M2, ij[1], ij[2]))])

Scale(s, M) ==
  [r |-> M.r, c |-> M.c, e |-> Whole([ij \in DOMAIN M.e |-> SMul(s, M.e[ij])])]

Transpose(M) ==
  [r |-> M.c, c |-> M.r,
   e |-> Whole([ij \in {<<x[2], x[1]>> : x \in DOMAIN M.e} |-> M.e[<<ij[2], ij[1]>>]])]

\* sp.eye(n)
Eye(n) == Sparse(n, n, [ij \in (1..n) \X (1..n) |-> IF ij[1] = ij[2] THEN One ELSE Zero])

\* sp.spdiags(vec, [0], n, n) for a vector (sequence) of n Scalars
SpDiags(vec, n) ==
  Sparse(n, n, [ij \in (1..n) \X (1..n) |-> IF ij[1] = ij[2] THEN vec[ij[1]] ELSE Zero])

\* sp.diags(vals, offs, shape=(n, n)): diagonal offs[d] holds the number vals[d];
\* diagonals with the same offset add up
Diags(vals, offs, n) ==
  LET f == [ij \in (1..n) \X (1..n) |->
              SumOver({d \in 1..Len(vals) : ij[2] - ij[1] = offs[d]},
                      [d \in 1..Len(vals) |-> Num(vals[d])])]
  IN  Sparse(n, n, f)

\* sp.kron(M1, M2)
Kron(M1, M2) ==
  LET r == M1.r * M2.r
      c == M1.c * M2.c
      f == [ij \in (1..r) \X (1..c) |->
              IF M2.r = 0 \/ M2.c = 0 THEN Zero
              ELSE SMul(Entry(M1, ((ij[1] - 1) \div M2.r) + 1, ((ij[2] - 1) \div M2.c) + 1),
                        Entry(M2, ((ij[1] - 1) % M2.r) + 1, ((ij[2] - 1) % M2.c) + 1))]
  IN  Sparse(r, c, f)

(***************************************************************************)
(* Operator builder: the PML stretching factors and the four derivative    *)
(* operators.                                                              *)
(***************************************************************************)
\* sig_w(l, dw, m=3, lnR=-30)
sig_w(l, dw) ==
  LET m == 3
      lnR == 0 - 30
      sig_max == SDiv(SMul(SNeg(Num(m + 1)), Num(lnR)), SMul(SMul(Num(2), ETA_0), dw))
  IN  SMul(sig_max, SPow(SDiv(l, dw), m))

\* S(l, dw, omega)
S(l, dw) == SAdd(One, SNeg(SDiv(SMul(Imag, sig_w(l, dw)), SMul(omega, EPSILON_0))))

\* create_sfactor(s, omega, dL, N, N_pml): the vector of N stretching factors;
\* position k of the sequence is the program's index i = k - 1
create_sfactor(s, N, N_pml) ==
  IF N_pml < 1 THEN [k \in 1..N |-> One]
  ELSE LET dw == SMul(Num(N_pml), dL)
       IN  Whole([k \in 1..N |->
              LET i == k - 1
              IN  IF s = "f"
                  THEN IF i <= N_pml
                       THEN S(SMul(dL, SAdd(Num(N_pml - i), Half)), dw)
                       ELSE IF i > N - N_pml
                       THEN S(SMul(dL, SAdd(Num(i - (N - N_pml)), SNeg(Half))), dw)
                       ELSE One
                  ELSE IF i <= N_pml
                       THEN S(SMul(dL, Num(N_pml - i + 1)), dw)
                       ELSE IF i > N - N_pml
                       THEN S(SMul(dL, Num(i - (N - N_pml) - 1)), dw)
                       ELSE One])

\* S_create(omega, shape, npml, dL): the four diagonal N x N matrices of the
\* reciprocal stretching factors, broadcast over the grid and flattened row-major
S_create(shape, npml) ==
  LET Nx == shape[1]
      Ny == shape[2]
      N == Nx * Ny
      sxf == create_sfactor("f", Nx, npml[1])
      sxb == create_sfactor("b", Nx, npml[1])
      syf == create_sfactor("f", Ny, npml[2])
      syb == create_sfactor("b", Ny, npml[2])
      ix(k) == ((k - 1) \div Ny) + 1
      iy(k) == ((k - 1) % Ny) + 1
  IN  [Sxf |-> SpDiags([k \in 1..N |-> Recip(sxf[ix(k)])], N),
       Sxb |-> SpDiags([k \in 1..N |-> Recip(sxb[ix(k)])], N),
       Syf |-> SpDiags([k \in 1..N |-> Recip(syf[iy(k)])], N),
       Syb |-> SpDiags([k \in 1..N |-> Recip(syb[iy(k)])], N)]

\* createDws without the wrap-around diagonal of the backward differences:
\* the periodic boundary is dropped on one side only
createDws_no_wrap(w, s, shape) ==
  LET Nx == shape[1]
      Ny == shape[2]
  IN  IF w = "x"
      THEN IF Nx > 1
           THEN IF s = "f"
                THEN Scale(Recip(dL), Kron(Diags(<<-1, 1, 1>>, <<0, 1, 1 - Nx>>, Nx), Eye(Ny)))
                ELSE Scale(Recip(dL), Kron(Diags(<<1, -1>>, <<0, -1>>, Nx), Eye(Ny)))
           ELSE Eye(Ny)
      ELSE IF Ny > 1
           THEN IF s = "f"
                THEN Scale(Recip(dL), Kron(Eye(Nx), Diags(<<-1, 1, 1>>, <<0, 1, 1 - Ny>>, Ny)))
                ELSE Scale(Recip(dL), Kron(Eye(Nx), Diags(<<1, -1>>, <<0, -1>>, Ny)))
           ELSE Eye(Nx)

\* createDws(w, s, dL, shape)
createDws(w, s, shape) ==
  LET Nx == shape[1]
      Ny == shape[2]
  IN  IF w = "x"
      THEN IF Nx > 1
           THEN IF s = "f"
                THEN Scale(Recip(dL), Kron(Diags(<<-1, 1, 1>>, <<0, 1, 1 - Nx>>, Nx), Eye(Ny)))
                ELSE Scale(Recip(dL), Kron(Diags(<<1, -1, -1>>, <<0, -1, Nx - 1>>, Nx), Eye(Ny)))
           ELSE Eye(Ny)
      ELSE IF Ny > 1
           THEN IF s = "f"
                THEN Scale(Recip(dL), Kron(Eye(Nx), Diags(<<-1, 1, 1>>, <<0, 1, 1 - Ny>>, Ny)))
                ELSE Scale(Recip(dL), Kron(Eye(Nx), Diags(<<1, -1, -1>>, <<0, -1, Ny - 1>>, Ny)))
           ELSE Eye(Nx)

\* compute_derivative_matrices(omega, shape, npml, dL).  ok is FALSE when a
\* product Sws.dot(Dws_0) is of matrices that do not conform (the call raises)
compute_derivative_matrices(shape, npml) ==
  Bind(S_create(shape, npml), LAMBDA Sm :
  Bind(createDws("x", "f", shape), LAMBDA Dxf_0 :
  Bind(createDws("x", "b", shape), LAMBDA Dxb_0 :
  Bind(createDws("y", "f", shape), LAMBDA Dyf_0 :
  Bind(createDws("y", "b", shape), LAMBDA Dyb_0 :
    IF /\ Conform(Sm.Sxf, Dxf_0) /\ Conform(Sm.Sxb, Dxb_0)
       /\ Conform(Sm.Syf, Dyf_0) /\ Conform(Sm.Syb, Dyb_0)
    THEN [ok |-> TRUE,
          Dxf |-> Dot(Sm.Sxf, Dxf_0), Dxb |-> Dot(Sm.Sxb, Dxb_0),
          Dyf |-> Dot(Sm.Syf, Dyf_0), Dyb |-> Dot(Sm.Syb, Dyb_0)]
    ELSE [ok |-> FALSE,
          Dxf |-> NoMatrix, Dxb |-> NoMatrix, Dyf |-> NoMatrix, Dyb |-> NoMatrix])))))

(***************************************************************************)
(* Vectors (sequences of Scalars) and grids.                               *)
(***************************************************************************)
\* M.dot(v), defined when M.c = Len(v)
MatVec(M, v) ==
  Whole([i \in 1..M.r |->
           SumOver({k \in 1..M.c : <<i, k>> \in DOMAIN M.e},
                   [k \in 1..M.c |-> SMul(Entry(M, i, k), v[k])])])

VScale(s, v) == Whole([i \in 1..Len(v) |-> SMul(s, v[i])])

\* elementwise u * v and u / v of two vectors of the same length
VMul(u, v) == Whole([i \in 1..Len(u) |-> SMul(u[i], v[i])])
VDiv(u, v) == Whole([i \in 1..Len(u) |-> SMul(u[i], Recip(v[i]))])

\* arr.flatten() of an Nx x Ny grid: row-major
Flatten(grid, shape) ==
  Whole([k \in 1..(shape[1] * shape[2]) |->
           grid[((k - 1) \div shape[2]) + 1][((k - 1) % shape[2]) + 1]])

\* np.reshape(vec, shape), defined when Len(vec) = shape[1] * shape[2]
Reshape(vec, shape) ==
  Whole([i \in 1..shape[1] |-> [j \in 1..shape[2] |-> vec[(i - 1) * shape[2] + j]]])

(***************************************************************************)
(* Inputs.  A permittivity is a record [callable, g, shape]: the static    *)
(* grid number g of that shape, or (callable) a function of the field      *)
(* Ez |-> grid g + 3 chi3 |Ez|^2, whose value at 0 has that shape.         *)
(* Cell (i, j) of grid g is the real number 100 g + 10 i + j.              *)
(***************************************************************************)
Dims == 1..MaxDim
Shapes == {s \in Dims \X Dims : s[1] * s[2] <= MaxCells}
\* two grids suffice to tell a newly assigned permittivity from the old one
EpsIds == {1, 2}
Perms == [callable : BOOLEAN, g : EpsIds, shape : Shapes]
NoPerm == [callable |-> FALSE, g |-> 0, shape |-> <<0, 0>>]
\* a simulation's PML widths: equal in x and y, or in x only
Npmls == {n \in (0..MaxObjPml) \X (0..MaxObjPml) : n[1] = n[2] \/ n[2] = 0}
Kinds == {"fdfd_ez", "fdfd_hz", "fdfd_ez_nl"}
Methods == {"bicg", "gmres"}

EpsGrid(p) == [i \in 1..p.shape[1] |-> [j \in 1..p.shape[2] |-> Num(100 * p.g + 10 * i + j)]]

\* the source grid handed to solve: cell (i, j) holds 1000 + 10 i + j
SourceGrid(shape) == [i \in 1..shape[1] |-> [j \in 1..shape[2] |-> Num(1000 + 10 * i + j)]]

NoVec == [tag |-> "none", v |-> <<>>, fn |-> NoPerm]

(***************************************************************************)
(* System matrices.  Each make_A returns [ok, A]; ok is FALSE when the     *)
(* sparse library raises because the shapes do not fit.                    *)
(***************************************************************************)
NoA == [tag |-> "none", m |-> NoMatrix, eps_vec |-> NoVec]

\* spdot(M1, M2) of ceviche.utils: the product of two sparse matrices
spdot(M1, M2) == Dot(M1, M2)

\* make_A_Ez with the permittivity term subtracted instead of added
make_A_Ez_minus(info_dict, eps_vec) ==
  LET n == Len(eps_vec.v)
      diag == Scale(EPSILON_0, SpDiags(eps_vec.v, n))
      xx == Scale(Recip(MU_0), Dot(info_dict.Dxf, info_dict.Dxb))
      yy == Scale(Recip(MU_0), Dot(info_dict.Dyf, info_dict.Dyb))
  IN  IF /\ Conform(info_dict.Dxf, info_dict.Dxb)
         /\ Conform(info_dict.Dyf, info_dict.Dyb)
         /\ SameShape(xx, yy) /\ SameShape(xx, diag)
      THEN [ok |-> TRUE,
            A |-> [tag |-> "matrix",
                   m |-> MAdd(MAdd(xx, yy), Scale(SNeg(SMul(omega, omega)), diag)),
                   eps_vec |-> NoVec]]
      ELSE [ok |-> FALSE, A |-> NoA]

\* make_A_Ez(info_dict, eps_vec)
make_A_Ez(info_dict, eps_vec) ==
  Bind(Scale(EPSILON_0, SpDiags(eps_vec.v, Len(eps_vec.v))), LAMBDA diag :
  Bind(Scale(Recip(MU_0), Dot(info_dict.Dxf, info_dict.Dxb)), LAMBDA xx :
  Bind(Scale(Recip(MU_0), Dot(info_dict.Dyf, info_dict.Dyb)), LAMBDA yy :
    IF /\ Conform(info_dict.Dxf, info_dict.Dxb)
       /\ Conform(info_dict.Dyf, info_dict.Dyb)
       /\ SameShape(xx, yy) /\ SameShape(xx, diag)
    THEN [ok |-> TRUE,
          A |-> [tag |-> "matrix",
                 m |-> MAdd(MAdd(xx, yy), Scale(SMul(omega, omega), diag)),
                 eps_vec |-> NoVec]]
    ELSE [ok |-> FALSE, A |-> NoA])))

\* make_A_Hz(info_dict, eps_vec)
make_A_Hz(info_dict, eps_vec) ==
  Bind(Len(eps_vec.v), LAMBDA n :
  Bind(Scale(Recip(EPSILON_0), SpDiags([k \in 1..n |-> Recip(eps_vec.v[k])], n)), LAMBDA diag :
  Bind(Transpose(info_dict.Dxb), LAMBDA xbT :
  Bind(Transpose(info_dict.Dyb), LAMBDA ybT :
  Bind(spdot(info_dict.Dxf, Transpose(spdot(xbT, diag))), LAMBDA xx :
  Bind(spdot(info_dict.Dyf, Transpose(spdot(ybT, diag))), LAMBDA yy :
    IF /\ Conform(xbT, diag) /\ Conform(ybT, diag)
       /\ info_dict.Dxf.c = diag.c /\ info_dict.Dyf.c = diag.c
       /\ SameShape(xx, yy)
       /\ xx.r = n /\ xx.c = n
    THEN [ok |-> TRUE,
          A |-> [tag |-> "matrix",
                 m |-> MAdd(MAdd(xx, yy), Scale(SMul(SMul(omega, omega), MU_0), Eye(n))),
                 eps_vec |-> NoVec]]
    ELSE [ok |-> FALSE, A |-> NoA]))))))

\* make_A_Ez_nl(info_dict, eps_vec): the closure A_fn over info_dict (the
\* object's dictionary, by reference) and the eps_vec function; nothing is
\* computed until the solver calls it
make_A_Ez_nl(info_dict, eps_vec) ==
  [ok |-> TRUE, A |-> [tag |-> "A_fn", m |-> NoMatrix, eps_vec |-> eps_vec]]

(***************************************************************************)
(* Field conversions.  Each returns [ok, ...]; ok is FALSE when a product  *)
(* of an operator with a vector of another length raises.                  *)
(***************************************************************************)
\* spdot(M, v) of ceviche.utils for a sparse matrix and a vector
spdot_vec(M, v) == MatVec(M, v)

\* Ez_to_Hx(Ez, info_dict)
Ez_to_Hx(Ez, info_dict) == VScale(Recip(MU_0), VScale(Num(-1), spdot_vec(info_dict.Dyb, Ez)))

\* Ez_to_Hy(Ez, info_dict)
Ez_to_Hy(Ez, info_dict) == VScale(Recip(MU_0), spdot_vec(info_dict.Dxb, Ez))

\* E_to_H(Ez, info_dict, eps_vec)
E_to_H(Ez, info_dict) ==
  IF info_dict.Dyb.c = Len(Ez) /\ info_dict.Dxb.c = Len(Ez)
  THEN [ok |-> TRUE, Fx |-> Ez_to_Hx(Ez, info_dict), Fy |-> Ez_to_Hy(Ez, info_dict)]
  ELSE [ok |-> FALSE, Fx |-> <<>>, Fy |-> <<>>]

\* Hz_to_Ex(Hz, info_dict, eps_vec, adjoint)
Hz_to_Ex(Hz, info_dict, eps_vec, adjoint) ==
  IF adjoint
  THEN VScale(Recip(EPSILON_0), VDiv(spdot_vec(Transpose(info_dict.Dyf), Hz), eps_vec.v))
  ELSE VScale(Recip(EPSILON_0), VDiv(VScale(Num(-1), spdot_vec(info_dict.Dyb, Hz)), eps_vec.v))

\* Hz_to_Ey(Hz, info_dict, eps_vec, adjoint)
Hz_to_Ey(Hz, info_dict, eps_vec, adjoint) ==
  IF adjoint
  THEN VScale(Recip(EPSILON_0),
              VDiv(VScale(Num(-1), spdot_vec(Transpose(info_dict.Dxf), Hz)), eps_vec.v))
  ELSE VScale(Recip(EPSILON_0), VDiv(spdot_vec(info_dict.Dxb, Hz), eps_vec.v))

\* H_to_E(Hz, info_dict, eps_vec, adjoint)
H_to_E(Hz, info_dict, eps_vec, adjoint) ==
  IF /\ info_dict.Dyb.c = Len(Hz) /\ info_dict.Dxb.c = Len(Hz)
     /\ info_dict.Dyf.r = Len(Hz) /\ info_dict.Dxf.r = Len(Hz)
     /\ info_dict.Dyb.r = Len(eps_vec.v) /\ info_dict.Dxb.r = Len(eps_vec.v)
     /\ info_dict.Dyf.c = Len(eps_vec.v) /\ info_dict.Dxf.c = Len(eps_vec.v)
  THEN [ok |-> TRUE, Fx |-> Hz_to_Ex(Hz, info_dict, eps_vec, adjoint),
                     Fy |-> Hz_to_Ey(Hz, info_dict, eps_vec, adjoint)]
  ELSE [ok |-> FALSE, Fx |-> <<>>, Fy |-> <<>>]

(***************************************************************************)
(* The external solver and the solve primitives.  A call of a collaborator *)
(* or of a conversion is recorded as an event                              *)
(*   [fn, nonlinear, iterative, method, A, b].                             *)
(* A primitive returns [raised, calls, Fz]: the error raised ("" if none), *)
(* the events in order and the solved vector.                              *)
(***************************************************************************)
Event(fn, nonlinear, iterative, method, A, b) ==
  [fn |-> fn, nonlinear |-> nonlinear, iterative |-> iterative, method |-> method,
   A |-> A, b |-> b]

StepEvent(fn) == Event(fn, FALSE, FALSE, "", NoA, <<>>)

\* sparse_solve(A, b, nonlinear, iterative, method) of ceviche.solvers:
\* returns the solution, one entry per entry of b, or raises (converged is
\* the solver's own outcome).  Entry i of the solution is 2000 + i + (3000 + i) 1j
sparse_solve(A, b, nonlinear, iterative, method, converged) ==
  [raised |-> IF converged THEN "" ELSE "SolverError",
   calls |-> <<Event("sparse_solve", nonlinear, iterative, method, A, b)>>,
   Fz |-> IF converged THEN [i \in 1..Len(b) |-> <<2000 + i, 3000 + i>>] ELSE <<>>]

NotReached == [raised |-> "ValueError", calls |-> <<>>, Fz |-> <<>>]

\* solve_Ez(info_dict, eps_vec, source, iterative, method)
solve_Ez(info_dict, eps_vec, source, iterative, method, converged) ==
  Bind(make_A_Ez(info_dict, eps_vec), LAMBDA A :
    IF A.ok
    THEN sparse_solve(A.A, VScale(SMul(Imag, omega), source), FALSE, iterative, method,
                      converged)
    ELSE NotReached)

\* solve_Hz with the source handed to the solver as it is, without 1j omega
solve_Hz_unscaled(info_dict, eps_vec, source, iterative, method, converged) ==
  LET A == make_A_Hz(info_dict, eps_vec)
      b == source
  IN  IF A.ok THEN sparse_solve(A.A, b, FALSE, iterative, method, converged)
      ELSE NotReached

\* solve_Hz(info_dict, eps_vec, source, iterative, method)
solve_Hz(info_dict, eps_vec, source, iterative, method, converged) ==
  Bind(make_A_Hz(info_dict, eps_vec), LAMBDA A :
    IF A.ok
    THEN sparse_solve(A.A, VScale(SMul(Imag, omega), source), FALSE, iterative, method,
                      converged)
    ELSE NotReached)

\* A_fn(Ez) of make_A_Ez_nl, as the solver calls it on a field estimate of
\* n entries: the sum of the operator products and the n x n diagonal
\* raises unless the operators are n x n
A_fn_fits(info_dict, n) ==
  /\ Conform(info_dict.Dxf, info_dict.Dxb) /\ Conform(info_dict.Dyf, info_dict.Dyb)
  /\ info_dict.Dxf.r = n /\ info_dict.Dxb.c = n
  /\ info_dict.Dyf.r = n /\ info_dict.Dyb.c = n

\* solve_Ez_nl(info_dict, eps_vec, source, iterative, method)
solve_Ez_nl(info_dict, eps_vec, source, iterative, method, converged) ==
  LET A == make_A_Ez_nl(info_dict, eps_vec)
      b == VScale(SMul(Imag, omega), source)
  IN  sparse_solve(A.A, b, TRUE, iterative, method,
                   converged /\ A_fn_fits(info_dict, Len(source)))

(***************************************************************************)
(* The simulation object.  self is the record of its attributes; kind is   *)
(* its class ("none": no object has been returned by a constructor) and    *)
(* attrs the set of attribute names that are set on it.  eps_priv is the   *)
(* value stored by the eps_r setter: the setters are defined in            *)
(* fdfd_linear and fdfd_nonlinear, so the name self.__eps_r they assign is *)
(* the attribute _fdfd_linear__eps_r or _fdfd_nonlinear__eps_r.            *)
(* info_dict holds the four operators; the attributes Dxf, Dxb, Dyf and    *)
(* Dyb are the same four matrix objects, assigned with it.                 *)
(***************************************************************************)
NoOps == [Dxf |-> NoMatrix, Dxb |-> NoMatrix, Dyf |-> NoMatrix, Dyb |-> NoMatrix]

NoObject ==
  [kind |-> "none", npml |-> <<0, 0>>, attrs |-> {},
   shape |-> <<0, 0>>, Nx |-> 0, Ny |-> 0, eps_vec |-> NoVec, eps_priv |-> NoPerm,
   info_dict |-> NoOps, A |-> NoA]

Linear(kind) == kind \in {"fdfd_ez", "fdfd_hz"}

\* the fdfd_linear setter with the shape assigned before the check of new_eps
fdfd_linear_eps_r_late_assert(o, new_eps) ==
  LET o1 == [o EXCEPT !.shape = new_eps.shape,
                      !.Nx = new_eps.shape[1],
                      !.Ny = new_eps.shape[2],
                      !.attrs = @ \cup {"shape", "Nx", "Ny"}]
  IN  IF new_eps.callable
      THEN [raised |-> "AssertionError", o |-> o1]
      ELSE [raised |-> "",
            o |-> [o1 EXCEPT !.eps_vec = [tag |-> "array",
                                          v |-> Flatten(EpsGrid(new_eps), new_eps.shape),
                                          fn |-> NoPerm],
                             !.eps_priv = new_eps,
                             !.attrs = @ \cup {"eps_vec", "_fdfd_linear__eps_r"}]]

\* fdfd_linear.eps_r setter
fdfd_linear_eps_r(o, new_eps) ==
  IF new_eps.callable
  THEN [raised |-> "AssertionError", o |-> o]
  ELSE [raised |-> "",
        o |-> [o EXCEPT !.shape = new_eps.shape,
                        !.Nx = new_eps.shape[1],
                        !.Ny = new_eps.shape[2],
                        !.eps_vec = [tag |-> "array",
                                     v |-> Flatten(EpsGrid(new_eps), new_eps.shape),
                                     fn |-> NoPerm],
                        !.eps_priv = new_eps,
                        !.attrs = @ \cup {"shape", "Nx", "Ny", "eps_vec",
                                          "_fdfd_linear__eps_r"}]]

\* fdfd_nonlinear.eps_r setter; eps_vec becomes the function
\* Ez |-> new_eps(Ez.reshape(self.shape)).flatten()
fdfd_nonlinear_eps_r(o, new_eps) ==
  IF ~new_eps.callable
  THEN [raised |-> "AssertionError", o |-> o]
  ELSE [raised |-> "",
        o |-> [o EXCEPT !.shape = new_eps.shape,
                        !.Nx = new_eps.shape[1],
                        !.Ny = new_eps.shape[2],
                        !.eps_vec = [tag |-> "lambda", v |-> <<>>, fn |-> new_eps],
                        !.eps_priv = new_eps,
                        !.attrs = @ \cup {"shape", "Nx", "Ny", "eps_vec",
                                          "_fdfd_nonlinear__eps_r"}]]

\* the assignment self.eps_r = new_eps, dispatched on the object's class
eps_r_setter(o, new_eps) ==
  IF Linear(o.kind) THEN fdfd_linear_eps_r(o, new_eps)
  ELSE fdfd_nonlinear_eps_r(o, new_eps)

\* the read of the attribute name of the object, for the names a
\* permittivity is stored under: it raises unless the attribute has been set
attribute(o, name) ==
  IF name \notin o.attrs THEN [raised |-> "AttributeError", value |-> NoPerm]
  ELSE [raised |-> "", value |-> o.eps_priv]

\* fdfd.eps_r getter: return self.__eps_r.  The getter is written in class
\* fdfd, where the name self.__eps_r is the attribute _fdfd__eps_r; the
\* properties of fdfd_linear and fdfd_nonlinear keep this getter
fdfd_eps_r(o) == attribute(o, "_fdfd__eps_r")

\* fdfd.setup_derivatives
setup_derivatives(o) ==
  Bind(compute_derivative_matrices(o.shape, o.npml), LAMBDA d :
    IF d.ok
    THEN [raised |-> "",
          o |-> [o EXCEPT !.info_dict = [Dxf |-> d.Dxf, Dxb |-> d.Dxb,
                                         Dyf |-> d.Dyf, Dyb |-> d.Dyb],
                          !.attrs = @ \cup {"Dxf", "Dxb", "Dyf", "Dyb"}]]
    ELSE [raised |-> "ValueError", o |-> o])

\* self.make_A(eps_vec) of the three classes
make_A(o, eps_vec) ==
  IF o.kind = "fdfd_hz" THEN make_A_Hz(o.info_dict, eps_vec)
  ELSE IF o.kind = "fdfd_ez" THEN make_A_Ez(o.info_dict, eps_vec)
  ELSE make_A_Ez_nl(o.info_dict, eps_vec)

\* fdfd.__init__(omega, dL, eps_r, npml)
fdfd_init(kind, eps_r, npml) ==
  Bind(eps_r_setter([NoObject EXCEPT !.kind = kind, !.npml = npml,
                                     !.attrs = {"omega", "dL", "npml", "info_dict"}],
                    eps_r), LAMBDA s :
    IF s.raised # "" THEN [raised |-> s.raised, o |-> NoObject]
    ELSE Bind(setup_derivatives(s.o), LAMBDA d :
      IF d.raised # "" THEN [raised |-> d.raised, o |-> NoObject]
      ELSE Bind(make_A(d.o, d.o.eps_vec), LAMBDA a :
        IF ~a.ok THEN [raised |-> "ValueError", o |-> NoObject]
        ELSE [raised |-> "", o |-> [d.o EXCEPT !.A = a.A, !.attrs = @ \cup {"A"}]])))

\* the constructors fdfd_ez(...), fdfd_hz(...), fdfd_ez_nl(...): the object
\* is returned only if nothing raises
construct(kind, eps_r, npml) ==
  IF kind = "fdfd_ez" /\ eps_r.callable THEN [raised |-> "AssertionError", o |-> NoObject]
  ELSE IF kind = "fdfd_ez_nl" /\ ~eps_r.callable
       THEN [raised |-> "AssertionError", o |-> NoObject]
  ELSE fdfd_init(kind, eps_r, npml)

\* self.solve_fn(eps_vec, source_vec, iterative, method) of the three classes
solve_fn(o, eps_vec, source_vec, iterative, method, converged) ==
  IF o.kind = "fdfd_hz"
  THEN solve_Hz(o.info_dict, eps_vec, source_vec, iterative, method, converged)
  ELSE IF o.kind = "fdfd_ez"
  THEN solve_Ez(o.info_dict, eps_vec, source_vec, FALSE, "bicg", converged)
  ELSE solve_Ez_nl(o.info_dict, eps_vec, source_vec, FALSE, "bicg", converged)

\* self.z_to_xy(Fz_vec, eps_vec) of the three classes, with its event
z_to_xy(o, Fz_vec, eps_vec) ==
  IF o.kind = "fdfd_hz"
  THEN [c |-> H_to_E(Fz_vec, o.info_dict, eps_vec, FALSE), ev |-> StepEvent("H_to_E")]
  ELSE [c |-> E_to_H(Fz_vec, o.info_dict), ev |-> StepEvent("E_to_H")]

NoFields == <<>>

\* fdfd.solve(source, iterative, method): [raised, calls, value]
solve(o, source, iterative, method, converged) ==
  Bind(Flatten(source, <<Len(source), IF Len(source) = 0 THEN 0 ELSE Len(source[1])>>),
       LAMBDA source_vec :
  Bind(solve_fn(o, o.eps_vec, source_vec, iterative, method, converged), LAMBDA z :
    IF z.raised # "" THEN [raised |-> z.raised, calls |-> z.calls, value |-> NoFields]
    ELSE Bind(z_to_xy(o, z.Fz, o.eps_vec), LAMBDA xy :
      IF ~xy.c.ok
      THEN [raised |-> "ValueError", calls |-> z.calls \o <<xy.ev>>, value |-> NoFields]
      ELSE IF \E vec \in {xy.c.Fx, xy.c.Fy, z.Fz} : Len(vec) # o.shape[1] * o.shape[2]
      THEN [raised |-> "ValueError", calls |-> z.calls \o <<xy.ev>>, value |-> NoFields]
      ELSE [raised |-> "", calls |-> z.calls \o <<xy.ev>>,
            value |-> <<Reshape(xy.c.Fx, o.shape), Reshape(xy.c.Fy, o.shape),
                        Reshape(z.Fz, o.shape)>>])))

(***************************************************************************)
(* Reverse-mode rules.  The module registers, for a solve primitive, one   *)
(* rule per positional argument (info_dict, eps_vec, source); "None"       *)
(* stands for no rule for that argument.  A primitive outside the domain   *)
(* has no registration at all.                                             *)
(***************************************************************************)
\* the defvjp(...) statements the module executes
defvjp ==
  [solve_Ez |-> <<"None", "vjp_maker_solve_Ez", "vjp_maker_solve_Ez_source">>,
   solve_Hz |-> <<"None", "vjp_maker_solve_Hz", "vjp_maker_solve_Hz_source">>]

\* the primitive that solve_fn of each class calls
primitive_of(kind) ==
  IF kind = "fdfd_hz" THEN "solve_Hz"
  ELSE IF kind = "fdfd_ez" THEN "solve_Ez"
  ELSE "solve_Ez_nl"

\* argument 2 of every solve primitive is eps_vec
has_vjp_eps_vec(primitive) ==
  primitive \in DOMAIN defvjp /\ defvjp[primitive][2] # "None"

(***************************************************************************)
(* Sensitivity rules of the linear solve primitives.  A rule is given the  *)
(* primitive's result (Ez or Hz) and the arguments of the primitive's call *)
(* (info_dict, eps_vec, source, iterative, method) and, for a reverse rule,*)
(* the cotangent v, for a forward rule the direction g.  It returns        *)
(* [raised, calls, value] as a solve primitive does, value being the       *)
(* product the rule computes.                                              *)
(***************************************************************************)
\* the defjvp(...) statements the module executes
defjvp ==
  [solve_Ez |-> <<"None", "jvp_solve_Ez", "jvp_solve_Ez_source">>,
   solve_Hz |-> <<"None", "jvp_solve_Hz", "jvp_solve_Hz_source">>]

VAdd(u, v) == Whole([i \in 1..Len(u) |-> SAdd(u[i], v[i])])
VReal(v) == Whole([i \in 1..Len(v) |-> Real(v[i])])                  \* np.real

\* A.T of a system matrix
A_T(A) == [A EXCEPT !.m = Transpose(@)]

RuleFailed(raised) == [raised |-> raised, calls |-> <<>>, value |-> <<>>]

\* what a rule returns after its call s of sparse_solve: the solver's error,
\* or the value computed from the solution by F
AfterSolve(s, F(_)) ==
  [raised |-> s.raised, calls |-> s.calls,
   value |-> IF s.raised = "" THEN F(s.Fz) ELSE <<>>]

\* vjp_maker_solve_Ez with the adjoint system solved with A instead of A.T
vjp_maker_solve_Ez_untransposed(Ez, info_dict, eps_vec, source, iterative, method, v, converged) ==
  Bind(make_A_Ez(info_dict, eps_vec), LAMBDA A :
    IF ~A.ok THEN RuleFailed("ValueError")
    ELSE AfterSolve(sparse_solve(A.A, VScale(Num(-1), v), FALSE, iterative, method,
                                 converged),
                    LAMBDA Ez_aj : VScale(SMul(EPSILON_0, SMul(omega, omega)),
                                          VReal(VMul(Ez_aj, Ez)))))

\* vjp_maker_solve_Ez(Ez, info_dict, eps_vec, source, iterative, method)(v)
vjp_maker_solve_Ez(Ez, info_dict, eps_vec, source, iterative, method, v, converged) ==
  Bind(make_A_Ez(info_dict, eps_vec), LAMBDA A :
    IF ~A.ok THEN RuleFailed("ValueError")
    ELSE AfterSolve(sparse_solve(A_T(A.A), VScale(Num(-1), v), FALSE, iterative, method,
                                 converged),
                    LAMBDA Ez_aj : VScale(SMul(EPSILON_0, SMul(omega, omega)),
                                          VReal(VMul(Ez_aj, Ez)))))

\* vjp_maker_solve_Ez_source(Ez, info_dict, eps_vec, source, iterative, method)(v)
vjp_maker_solve_Ez_source(Ez, info_dict, eps_vec, source, iterative, method, v, converged) ==
  Bind(make_A_Ez(info_dict, eps_vec), LAMBDA A :
    IF ~A.ok THEN RuleFailed("ValueError")
    ELSE AfterSolve(sparse_solve(A_T(A.A), v, FALSE, iterative, method, converged),
                    LAMBDA x : VScale(SMul(Imag, omega), x)))

\* jvp_solve_Ez(g, Ez, info_dict, eps_vec, source, iterative, method)
jvp_solve_Ez(g, Ez, info_dict, eps_vec, source, iterative, method, converged) ==
  Bind(make_A_Ez(info_dict, eps_vec), LAMBDA A :
    IF ~A.ok THEN RuleFailed("ValueError")
    ELSE AfterSolve(sparse_solve(A.A, VMul(Ez, VScale(Num(-1), g)), FALSE, iterative,
                                 method, converged),
                    LAMBDA Ez_for : VScale(SMul(EPSILON_0, SMul(omega, omega)), Ez_for)))

\* jvp_solve_Ez_source(g, Ez, info_dict, eps_vec, source, iterative, method)
jvp_solve_Ez_source(g, Ez, info_dict, eps_vec, source, iterative, method, converged) ==
  Bind(make_A_Ez(info_dict, eps_vec), LAMBDA A :
    IF ~A.ok THEN RuleFailed("ValueError")
    ELSE AfterSolve(sparse_solve(A.A, g, FALSE, iterative, method, converged),
                    LAMBDA x : VScale(SMul(Imag, omega), x)))

\* vjp_maker_solve_Hz(Hz, info_dict, eps_vec, source, iterative, method)(v)
vjp_maker_solve_Hz(Hz, info_dict, eps_vec, source, iterative, method, v, converged) ==
  Bind(H_to_E(Hz, info_dict, eps_vec, FALSE), LAMBDA E :
  Bind(make_A_Hz(info_dict, eps_vec), LAMBDA A :
    IF ~E.ok \/ ~A.ok THEN RuleFailed("ValueError")
    ELSE AfterSolve(sparse_solve(A_T(A.A), VScale(Num(-1), v), FALSE, iterative, method,
                                 converged),
                    LAMBDA Hz_aj :
                      Bind(H_to_E(Hz_aj, info_dict, eps_vec, TRUE), LAMBDA E_aj :
                        VScale(EPSILON_0,
                               VReal(VAdd(VMul(E_aj.Fx, E.Fx), VMul(E_aj.Fy, E.Fy))))))))

\* vjp_maker_solve_Hz_source(Hz, info_dict, eps_vec, source, iterative, method)(v)
vjp_maker_solve_Hz_source(Hz, info_dict, eps_vec, source, iterative, method, v, converged) ==
  Bind(make_A_Hz(info_dict, eps_vec), LAMBDA A :
    IF ~A.ok THEN RuleFailed("ValueError")
    ELSE AfterSolve(sparse_solve(A_T(A.A), v, FALSE, iterative, method, converged),
                    LAMBDA x : VScale(SMul(Imag, omega), x)))

\* jvp_solve_Hz(g, Hz, info_dict, eps_vec, source, iterative, method); the
\* products ux * diag * g * diag with the diagonal matrix of 1 / eps_vec
\* divide ux by eps_vec, multiply by g and divide by eps_vec again
jvp_solve_Hz(g, Hz, info_dict, eps_vec, source, iterative, method, converged) ==
  Bind(make_A_Hz(info_dict, eps_vec), LAMBDA A :
    IF ~A.ok \/ info_dict.Dxb.c # Len(Hz) \/ info_dict.Dyb.c # Len(Hz)
    THEN RuleFailed("ValueError")
    ELSE Bind(VDiv(VMul(VDiv(spdot_vec(info_dict.Dxb, Hz), eps_vec.v), g), eps_vec.v),
              LAMBDA ux :
         Bind(VDiv(VMul(VDiv(spdot_vec(info_dict.Dyb, Hz), eps_vec.v), g), eps_vec.v),
              LAMBDA uy :
           AfterSolve(sparse_solve(A.A, VAdd(spdot_vec(info_dict.Dxf, ux),
                                             spdot_vec(info_dict.Dyf, uy)),
                                   FALSE, iterative, method, converged),
                      LAMBDA Hz_for : VScale(Recip(EPSILON_0), Hz_for)))))

\* jvp_solve_Hz_source(g, Hz, info_dict, eps_vec, source, iterative, method)
jvp_solve_Hz_source(g, Hz, info_dict, eps_vec, source, iterative, method, converged) ==
  Bind(make_A_Hz(info_dict, eps_vec), LAMBDA A :
    IF ~A.ok THEN RuleFailed("ValueError")
    ELSE AfterSolve(sparse_solve(A.A, g, FALSE, iterative, method, converged),
                    LAMBDA x : VScale(SMul(Imag, omega), x)))

\* the differentiation engine's record of one call of a solve primitive:
\* the primitive, its result ans and the arguments of the call
NoTape ==
  [primitive |-> "none", ans |-> <<>>, info_dict |-> NoOps, eps_vec |-> NoVec,
   source |-> <<>>, iterative |-> FALSE, method |-> ""]

Modes == {"reverse", "forward"}
\* the positions of eps_vec and of source among a primitive's arguments
Argnums == {2, 3}

\* the rule registered for argument argnum of the primitive
rule_of(mode, primitive, argnum) ==
  IF mode = "reverse" THEN defvjp[primitive][argnum] ELSE defjvp[primitive][argnum]

\* the engine's call of the rule named rule on the record t, with the
\* cotangent or direction v
apply_rule(rule, t, v, converged) ==
  IF rule = "vjp_maker_solve_Ez"
  THEN vjp_maker_solve_Ez(t.ans, t.info_dict, t.eps_vec, t.source, t.iterative, t.method,
                          v, converged)
  ELSE IF rule = "vjp_maker_solve_Ez_source"
  THEN vjp_maker_solve_Ez_source(t.ans, t.info_dict, t.eps_vec, t.source, t.iterative,
                                 t.method, v, converged)
  ELSE IF rule = "jvp_solve_Ez"
  THEN jvp_solve_Ez(v, t.ans, t.info_dict, t.eps_vec, t.source, t.iterative, t.method,
                    converged)
  ELSE IF rule = "jvp_solve_Ez_source"
  THEN jvp_solve_Ez_source(v, t.ans, t.info_dict, t.eps_vec, t.source, t.iterative,
                           t.method, converged)
  ELSE IF rule = "vjp_maker_solve_Hz"
  THEN vjp_maker_solve_Hz(t.ans, t.info_dict, t.eps_vec, t.source, t.iterative, t.method,
                          v, converged)
  ELSE IF rule = "vjp_maker_solve_Hz_source"
  THEN vjp_maker_solve_Hz_source(t.ans, t.info_dict, t.eps_vec, t.source, t.iterative,
                                 t.method, v, converged)
  ELSE IF rule = "jvp_solve_Hz"
  THEN jvp_solve_Hz(v, t.ans, t.info_dict, t.eps_vec, t.source, t.iterative, t.method,
                    converged)
  ELSE jvp_solve_Hz_source(v, t.ans, t.info_dict, t.eps_vec, t.source, t.iterative,
                           t.method, converged)

\* the cotangent or direction the engine hands to a rule: one entry per
\* entry of the primitive's result, entry i being 500 + i + (700 + i) 1j
Cotangent(n) == [i \in 1..n |-> <<500 + i, 700 + i>>]

(***************************************************************************)
(* State: the simulation object, the outcome of the last operation the     *)
(* caller ran (result), the events of that operation (calls), tape: the    *)
(* differentiation engine's record of the last traced solve, and probe:    *)
(* one call of the operator builder on its own, with its arguments and,    *)
(* once it has run, what it returned.                                      *)
(***************************************************************************)
VARIABLES self, result, calls, tape, probe

vars == <<self, result, calls, tape, probe>>

Outcome(op, raised, value) == [op |-> op, raised |-> raised, value |-> value]

NoProbe == [fn |-> "none", shape |-> <<0, 0>>, npml |-> <<0, 0>>, done |-> FALSE,
            out |-> [ok |-> FALSE, Dxf |-> NoMatrix, Dxb |-> NoMatrix,
                     Dyf |-> NoMatrix, Dyb |-> NoMatrix]]

Init ==
  /\ self = NoObject
  /\ result = Outcome("none", "", NoFields)
  /\ calls = <<>>
  /\ tape = NoTape
  /\ probe = NoProbe

\* sim = fdfd_ez(omega, dL, eps_r, npml), and the same for the other classes
Construct(kind, eps_r, npml) ==
  /\ self.kind = "none"
  /\ \E c \in {construct(kind, eps_r, npml)} :
        /\ self' = c.o
        /\ result' = Outcome("construct", c.raised, NoFields)
        /\ calls' = <<>>
  /\ UNCHANGED <<tape, probe>>

\* sim.eps_r = new_eps
SetEps(new_eps) ==
  /\ self.kind # "none"
  /\ \E s \in {eps_r_setter(self, new_eps)} :
        /\ self' = s.o
        /\ result' = Outcome("eps_r", s.raised, NoFields)
        /\ calls' = <<>>
  /\ UNCHANGED <<tape, probe>>

\* sim.solve(source, iterative, method) with a source grid of the object's shape
Solve(iterative, method, converged) ==
  /\ self.kind # "none"
  /\ \E r \in {solve(self, SourceGrid(self.shape), iterative, method, converged)} :
        /\ result' = Outcome("solve", r.raised, r.value)
        /\ calls' = r.calls
  /\ UNCHANGED <<self, tape, probe>>

\* sim.eps_r read by the caller
GetEps ==
  /\ self.kind # "none"
  /\ \E r \in {fdfd_eps_r(self)} :
        /\ result' = Outcome("get_eps_r", r.raised, r.value)
        /\ calls' = <<>>
  /\ UNCHANGED <<self, tape, probe>>

Next ==
  \/ \E kind \in Kinds, eps_r \in Perms, npml \in Npmls : Construct(kind, eps_r, npml)
  \/ \E new_eps \in Perms : SetEps(new_eps)
  \/ GetEps
  \/ \E iterative \in BOOLEAN, method \in Methods, converged \in BOOLEAN :
        Solve(iterative, method, converged)

Spec == Init /\ [][Next]_vars

(***************************************************************************)
(* The operator builder on its own: compute_derivative_matrices is called  *)
(* once on a grid shape and a pair of PML widths drawn from the sets       *)
(* below, which reach larger grids than the simulations of Spec.           *)
(***************************************************************************)
OpShapes == {s \in (1..MaxAxis) \X (1..MaxAxis) : s[1] * s[2] <= MaxOpCells}
OpNpmls == (0..MaxPml) \X (0..MaxPml)

InitOps ==
  /\ self = NoObject
  /\ result = Outcome("none", "", NoFields)
  /\ calls = <<>>
  /\ tape = NoTape
  /\ probe \in {[NoProbe EXCEPT !.fn = "compute_derivative_matrices",
                                !.shape = s, !.npml = n] : s \in OpShapes, n \in OpNpmls}

\* Dxf, Dxb, Dyf, Dyb = compute_derivative_matrices(omega, shape, npml, dL)
RunDerivatives ==
  /\ probe.fn = "compute_derivative_matrices"
  /\ ~probe.done
  /\ probe' = [probe EXCEPT !.done = TRUE,
                            !.out = compute_derivative_matrices(probe.shape, probe.npml)]
  /\ UNCHANGED <<self, result, calls, tape>>

NextOps == RunDerivatives

SpecOps == InitOps /\ [][NextOps]_vars

(***************************************************************************)
(* Differentiation through solve.  The engine traces a solve of a linear   *)
(* simulation: it records the call of the solve primitive on its tape and  *)
(* later calls the rules registered for the primitive, any number of       *)
(* times, while the caller may go on assigning permittivities.             *)
(***************************************************************************)
ADKinds == {kind \in Kinds : Linear(kind)}
ADPerms == {p \in Perms : ~p.callable /\ p.shape[1] * p.shape[2] <= MaxADCells}
\* a differentiated simulation is constructed with grid 1 of some shape and
\* without PML or with a PML one cell wide in x and y
ADFirstPerms == {p \in ADPerms : p.g = 1}
ADNpmls == {<<0, 0>>, <<1, 1>>}

\* sim.solve(source, iterative, method) traced by the engine: the primitive
\* is called by solve_fn with the object's info_dict and eps_vec and the
\* flattened source, and hands its iterative and method on to the solver; a
\* solve that raises leaves no record
TracedSolve(iterative, method, converged) ==
  /\ self.kind # "none"
  /\ \E r \in {solve(self, SourceGrid(self.shape), iterative, method, converged)} :
        /\ result' = Outcome("solve", r.raised, r.value)
        /\ calls' = r.calls
        /\ tape' = IF r.raised # "" THEN NoTape
                   ELSE [primitive |-> primitive_of(self.kind),
                         ans |-> Flatten(r.value[3], self.shape),
                         info_dict |-> self.info_dict,
                         eps_vec |-> self.eps_vec,
                         source |-> Flatten(SourceGrid(self.shape), self.shape),
                         iterative |-> r.calls[1].iterative,
                         method |-> r.calls[1].method]
  /\ UNCHANGED <<self, probe>>

\* the engine calls the rule registered for argument argnum of the recorded
\* primitive, in reverse or in forward mode
Differentiate(mode, argnum, converged) ==
  /\ tape.primitive \in DOMAIN defvjp
  /\ tape.primitive \in DOMAIN defjvp
  /\ \E rule \in {rule_of(mode, tape.primitive, argnum)} :
     \E r \in {apply_rule(rule, tape, Cotangent(Len(tape.ans)), converged)} :
        /\ result' = Outcome(rule, r.raised, r.value)
        /\ calls' = r.calls
  /\ UNCHANGED <<self, tape, probe>>

NextAD ==
  \/ \E kind \in ADKinds, eps_r \in ADFirstPerms, npml \in ADNpmls :
        Construct(kind, eps_r, npml)
  \/ \E new_eps \in ADPerms : SetEps(new_eps)
  \/ \E iterative \in BOOLEAN, converged \in BOOLEAN :
        TracedSolve(iterative, "bicg", converged)
  \/ \E mode \in Modes, argnum \in Argnums, converged \in BOOLEAN :
        Differentiate(mode, argnum, converged)

SpecAD == Init /\ [][NextAD]_vars

(***************************************************************************)
(* The stretching factors on their own: create_sfactor is called once,     *)
(* for the forward or the backward operator, on an axis length and a PML   *)
(* width drawn from the sets below.                                        *)
(***************************************************************************)
SfProbes ==
  {[fn |-> "create_sfactor", s |-> s, N |-> N, N_pml |-> N_pml, done |-> FALSE, out |-> <<>>] :
     s \in {"f", "b"}, N \in 1..MaxSfN, N_pml \in 0..MaxSfPml}

InitSfactor ==
  /\ self = NoObject
  /\ result = Outcome("none", "", NoFields)
  /\ calls = <<>>
  /\ tape = NoTape
  /\ probe \in SfProbes

\* sfactor_vecay = create_sfactor(s, omega, dL, N, N_pml)
RunSfactor ==
  /\ probe.fn = "create_sfactor"
  /\ ~probe.done
  /\ probe' = [probe EXCEPT !.done = TRUE,
                            !.out = create_sfactor(probe.s, probe.N, probe.N_pml)]
  /\ UNCHANGED <<self, result, calls, tape>>

NextSfactor == RunSfactor

SpecSfactor == InitSfactor /\ [][NextSfactor]_vars

(***************************************************************************)
(* Properties.                                                             *)
(***************************************************************************)
Ops(d) == [Dxf |-> d.Dxf, Dxb |-> d.Dxb, Dyf |-> d.Dyf, Dyb |-> d.Dyb]

\* C1: in every reachable state the system matrix cached on the simulation
\* object (attribute A) is the matrix assembled from the currently assigned
\* permittivity, never that of a previously assigned one
C1_CachedMatrixIsCurrent ==
  self.kind # "none" => self.A = make_A(self, self.eps_vec).A

\* C2: in every reachable state the four derivative operators of the object
\* are the N x N operators built for its current grid shape, N = Nx Ny
C2_OperatorsOfCurrentShape ==
  self.kind # "none" =>
    /\ self.info_dict = Ops(compute_derivative_matrices(self.shape, self.npml))
    /\ \A M \in {self.info_dict.Dxf, self.info_dict.Dxb,
                 self.info_dict.Dyf, self.info_dict.Dyb} :
          M.r = self.Nx * self.Ny /\ M.c = self.Nx * self.Ny

\* a callable permittivity for a linear class, a static one for the nonlinear
Mismatch(kind, p) == IF Linear(kind) THEN p.callable ELSE ~p.callable

\* C3: a permittivity of the wrong sort (callable for fdfd_ez or fdfd_hz,
\* not callable for fdfd_ez_nl) is never accepted: a construction or an
\* assignment of eps_r that succeeds has stored a permittivity of the right
\* sort, a construction that fails returns no object, and an assignment
\* that fails raises the assertion's error and leaves shape, Nx, Ny, eps_vec
\* and the stored permittivity as they were
C3_MismatchFailsUnchanged ==
  [][/\ (result'.op \in {"construct", "eps_r"} /\ result'.raised = "")
           => ~Mismatch(self'.kind, self'.eps_priv)
     /\ (result'.op = "construct" /\ result'.raised # "") => self'.kind = "none"
     /\ (result'.op = "eps_r" /\ result'.raised # "")
           => /\ result'.raised = "AssertionError"
              /\ self'.kind = self.kind
              /\ self'.shape = self.shape
              /\ self'.Nx = self.Nx
              /\ self'.Ny = self.Ny
              /\ self'.eps_vec = self.eps_vec
              /\ self'.eps_priv = self.eps_priv]_vars

\* C3 happens: an assignment of eps_r to an existing object has just failed
C3_AssignmentFailed ==
  /\ self.kind \in Kinds
  /\ result.op = "eps_r"
  /\ result.raised = "AssertionError"

\* C4: no object is returned by a constructor for a grid with a dimension
\* below 1 or a PML width at least the grid dimension in x or in y
C4_NoObjectWithPmlAsWideAsGrid ==
  (result.op = "construct" /\ result.raised = "") =>
    /\ self.Nx >= 1 /\ self.Ny >= 1
    /\ self.npml[1] < self.Nx
    /\ self.npml[2] < self.Ny

Neg(M) == Scale(Num(-1), M)

\* C5 as stated: for every shape with Nx >= 1 and Ny >= 1 and PML width 0,
\* Dxf = -(Dxb transposed) and Dyf = -(Dyb transposed)
C5_AntiTransposeEveryShape ==
  (probe.done /\ probe.npml = <<0, 0>>) =>
    /\ probe.out.ok
    /\ probe.out.Dxf = Neg(Transpose(probe.out.Dxb))
    /\ probe.out.Dyf = Neg(Transpose(probe.out.Dyb))

\* C5 amended: with PML width 0, Dxf = -(Dxb transposed) when Nx >= 2 and
\* Dyf = -(Dyb transposed) when Ny >= 2; along an axis of one cell both
\* operators of the axis are the N x N identity
C5_AntiTransposeOnAxesOfTwoOrMore ==
  (probe.done /\ probe.npml = <<0, 0>>) =>
    LET N == probe.shape[1] * probe.shape[2]
    IN  /\ probe.out.ok
        /\ IF probe.shape[1] >= 2
           THEN probe.out.Dxf = Neg(Transpose(probe.out.Dxb))
           ELSE probe.out.Dxf = Eye(N) /\ probe.out.Dxb = Eye(N)
        /\ IF probe.shape[2] >= 2
           THEN probe.out.Dyf = Neg(Transpose(probe.out.Dyb))
           ELSE probe.out.Dyf = Eye(N) /\ probe.out.Dyb = Eye(N)

\* C5 happens: the builder has run with PML width 0 on a grid with one axis
\* of a single cell and one longer axis
C5_BuiltForOneCellAxis ==
  /\ probe.done
  /\ probe.npml = <<0, 0>>
  /\ probe.shape[1] = 1
  /\ probe.shape[2] >= 2

SolverCalls == {k \in 1..Len(calls) : calls[k].fn = "sparse_solve"}

\* C6: each solve calls the external solver exactly once; when that call
\* fails the failure is what solve raises, no conversion follows and no
\* fields are returned
C6_OneSolverCallPerSolve ==
  result.op = "solve" =>
    /\ Cardinality(SolverCalls) = 1
    /\ result.raised # "" =>
         /\ result.raised = "SolverError"
         /\ Len(calls) = 1
         /\ result.value = NoFields

\* C8: reverse-mode differentiation through a solve of the nonlinear class
\* yields the gradient with respect to the permittivity; for that the
\* primitive it solves with has a reverse-mode rule for its eps_vec argument
C8_NonlinearSolveHasReverseRule ==
  (self.kind = "fdfd_ez_nl" /\ result.op = "solve" /\ result.raised = "") =>
    has_vjp_eps_vec(primitive_of(self.kind))

\* entry (i, j) of the product M1 M2
ProductEntry(M1, M2, i, j) ==
  SumOver(1..M1.c, [k \in 1..M1.c |-> SMul(Entry(M1, i, k), Entry(M2, k, j))])

\* entry (i, j) of (1/mu0) (Dxf Dxb + Dyf Dyb) + eps0 omega^2 diag(eps)
WaveEntry(ops, eps, i, j) ==
  SAdd(SMul(Recip(MU_0), SAdd(ProductEntry(ops.Dxf, ops.Dxb, i, j),
                              ProductEntry(ops.Dyf, ops.Dyb, i, j))),
       IF i = j THEN SMul(SMul(EPSILON_0, SMul(omega, omega)), eps[i]) ELSE Zero)

\* A is the N x N matrix whose entries are sign times WaveEntry
IsWaveMatrix(A, ops, eps, sign) ==
  /\ A.r = Len(eps) /\ A.c = Len(eps)
  /\ \A i, j \in 1..Len(eps) : Entry(A, i, j) = SMul(sign, WaveEntry(ops, eps, i, j))

\* the linear Ez matrices of the state: the cached one after construction
\* and the one handed to the solver by a solve
EzMatrices ==
  IF self.kind # "fdfd_ez" THEN {}
  ELSE (IF result.op = "construct" THEN {self.A.m} ELSE {})
       \cup {calls[k].A.m : k \in SolverCalls}

\* C9 as stated: the matrix make_A_Ez assembles is
\* -(1/mu0) (Dxf Dxb + Dyf Dyb) - eps0 omega^2 diag(eps), entry for entry
C9_MatrixIsNegatedWaveOperator ==
  \A A \in EzMatrices : IsWaveMatrix(A, self.info_dict, self.eps_vec.v, Num(-1))

\* C9 amended: the matrix make_A_Ez assembles is
\* +(1/mu0) (Dxf Dxb + Dyf Dyb) + eps0 omega^2 diag(eps), entry for entry
C9_MatrixIsWaveOperator ==
  \A A \in EzMatrices : IsWaveMatrix(A, self.info_dict, self.eps_vec.v, One)

\* C9 happens: a solve of an fdfd_ez object on a grid of several cells has
\* handed its matrix, which has entries off the diagonal, to the solver
C9_EzMatrixAssembled ==
  /\ self.kind = "fdfd_ez"
  /\ result.op = "solve"
  /\ \E k \in SolverCalls : \E ij \in DOMAIN calls[k].A.m.e : ij[1] # ij[2]

\* entry i of the product of the matrix M and the vector v
RowDot(M, v, i) == SumOver(1..M.c, [k \in 1..M.c |-> SMul(Entry(M, i, k), v[k])])

\* the flattened source of the solve the state records
SourceVec == Flatten(SourceGrid(self.shape), self.shape)

Solved(n) == [i \in 1..n |-> <<2000 + i, 3000 + i>>]

\* C11: a solve of fdfd_ez or fdfd_ez_nl that succeeds returns the tuple
\* (Hx, Hy, Ez) with Ez the solver's vector, Hx = (1/(1j mu0)) Dyb Ez and
\* Hy = -(1/(1j mu0)) Dxb Ez, each reshaped to the grid
C11_ConvertsWithFactorOneOverI ==
  (self.kind \in {"fdfd_ez", "fdfd_ez_nl"} /\ result.op = "solve" /\ result.raised = "") =>
    LET N == Len(SourceVec)
        Ez == Solved(N)
        Hx == [i \in 1..N |-> SDiv(RowDot(self.info_dict.Dyb, Ez, i), SMul(Imag, MU_0))]
        Hy == [i \in 1..N |->
                 SNeg(SDiv(RowDot(self.info_dict.Dxb, Ez, i), SMul(Imag, MU_0)))]
    IN  result.value = <<Reshape(Hx, self.shape), Reshape(Hy, self.shape),
                         Reshape(Ez, self.shape)>>

\* the names of the registered sensitivity rules, by mode and argument
RuleNames(mode, argnum) == {rule_of(mode, primitive, argnum) : primitive \in DOMAIN defvjp}

\* entry (i, j) of the Hz system matrix of the operators ops and the
\* permittivity vector eps:
\* Dxf diag(1/(eps0 eps)) Dxb + Dyf diag(1/(eps0 eps)) Dyb + omega^2 mu0 I
HzEntry(ops, eps, i, j) ==
  SAdd(SAdd(SumOver(1..Len(eps),
                    [k \in 1..Len(eps) |->
                       SMul(SMul(Entry(ops.Dxf, i, k), Recip(SMul(EPSILON_0, eps[k]))),
                            Entry(ops.Dxb, k, j))]),
            SumOver(1..Len(eps),
                    [k \in 1..Len(eps) |->
                       SMul(SMul(Entry(ops.Dyf, i, k), Recip(SMul(EPSILON_0, eps[k]))),
                            Entry(ops.Dyb, k, j))])),
       IF i = j THEN SMul(SMul(omega, omega), MU_0) ELSE Zero)

\* entry (i, j) of the system matrix of the recorded solve call, assembled
\* from the operators and the permittivity vector the tape retains
RetainedEntry(i, j) ==
  IF tape.primitive = "solve_Hz" THEN HzEntry(tape.info_dict, tape.eps_vec.v, i, j)
  ELSE WaveEntry(tape.info_dict, tape.eps_vec.v, i, j)

\* C12: a call of a sensitivity rule of solve_Ez or solve_Hz makes exactly
\* one call of the external solver.  A reverse rule hands it the transpose
\* of the system matrix of the permittivity retained from the solve call,
\* with the right-hand side -v (rule for the permittivity) or v (rule for
\* the source); a forward rule hands it that matrix itself
C12_RuleSolvesOnceWithRetainedMatrix ==
  \A mode \in Modes, argnum \in Argnums :
    result.op \in RuleNames(mode, argnum) =>
      LET N == Len(tape.eps_vec.v)
          v == Cotangent(Len(tape.ans))
      IN  /\ Len(calls) = 1
          /\ calls[1].fn = "sparse_solve"
          /\ ~calls[1].nonlinear
          /\ calls[1].A.m.r = N /\ calls[1].A.m.c = N
          /\ \A i, j \in 1..N :
                Entry(calls[1].A.m, i, j) =
                  IF mode = "reverse" THEN RetainedEntry(j, i) ELSE RetainedEntry(i, j)
          /\ mode = "reverse" =>
                calls[1].b = IF argnum = 2 THEN [i \in 1..Len(v) |-> SNeg(v[i])] ELSE v

\* C12 happens: a reverse rule for the permittivity has run on a solve whose
\* system matrix is not symmetric, after the object was assigned a
\* permittivity other than the one the solve retained and while its cached
\* matrix is not the matrix of that solve either
C12_RuleRanAfterReassignment ==
  /\ result.op \in RuleNames("reverse", 2)
  /\ result.raised = ""
  /\ self.eps_vec # tape.eps_vec
  /\ \E i, j \in 1..Len(tape.eps_vec.v) :
        /\ RetainedEntry(i, j) # RetainedEntry(j, i)
        /\ Entry(self.A.m, i, j) # RetainedEntry(i, j)

\* C13: for 0 <= N_pml < N, the factor create_sfactor returns for grid index
\* i (position i + 1 of the vector), forward or backward, differs from 1
\* exactly when i < N_pml or i >= N - N_pml; with N_pml = 0 every factor is 1
C13_FactorIsOneExactlyOutsidePml ==
  (probe.fn = "create_sfactor" /\ probe.done /\ probe.N_pml < probe.N) =>
    /\ Len(probe.out) = probe.N
    /\ \A i \in 0..(probe.N - 1) :
          (probe.out[i + 1] # One) <=> (i < probe.N_pml \/ i >= probe.N - probe.N_pml)

\* C14: on an object of any of the three classes, after any assignments of
\* eps_r, a read of eps_r succeeds and returns the permittivity assigned last
C14_ReadReturnsLastAssigned ==
  result.op = "get_eps_r" =>
    /\ result.raised = ""
    /\ result.value = self.eps_priv

\* C15: a solve of any of the three classes hands the caller's iterative
\* and method on to the external solver: every solver call of a step
\* solve(source, iterative, method) carries that iterative and that method
C15_SolverGetsCallersArguments ==
  [][\A iterative \in BOOLEAN, method \in Methods, converged \in BOOLEAN :
       Solve(iterative, method, converged) =>
         \A k \in 1..Len(calls') :
            calls'[k].fn = "sparse_solve" =>
              /\ calls'[k].iterative = iterative
              /\ calls'[k].method = method]_vars
====
